---- MODULE Spec2Model ----
(***************************************************************************)
(* Model of src/app/page.tsx: the banned-passage filter                    *)
(* (normalizeForCompare, escapeRegExp, filterOutBannedSentences) and the   *)
(* Home component that feeds it.                                           *)
(*                                                                         *)
(* A text is a sequence of one-character strings.  The alphabet keeps one  *)
(* member of every character class the code distinguishes: letters in two  *)
(* cases, the whitespace characters, the sentence terminators, the other   *)
(* trailing punctuation and a regular-expression metacharacter.            *)
(***************************************************************************)
EXTENDS Integers, Sequences, FiniteSets, TLC

VARIABLES
  \* a call of the filter and of the normalizer on a text under construction
  input,      \* the argument text
  typed,      \* number of fragments it was built from
  pc,         \* "edit", "called", "again" or "normalized"
  threw,      \* whether the try block of the first call threw
  erased,     \* input as the try block leaves it
  output,     \* filterOutBannedSentences(input)
  again,      \* filterOutBannedSentences(output)
  key,        \* normalizeForCompare(input)
  rekey,      \* normalizeForCompare(key)
  \* the Home component
  source,     \* useState source
  filtered,   \* useState filtered
  msg,        \* useState msg
  pasteStatus,\* useState pasteStatus
  updates,    \* the setState calls queued for the next render, per state
  effect,     \* the [source] effect of the last render has yet to run
  reads       \* number of pending navigator.clipboard.readText() promises

fvars == <<input, typed, pc, threw, erased, output, again, key, rekey>>
uvars == <<source, filtered, msg, pasteStatus, updates, effect, reads>>
vars == <<input, typed, pc, threw, erased, output, again, key, rekey,
          source, filtered, msg, pasteStatus, updates, effect, reads>>

(***************************************************************************)
(* Character classes of the JavaScript regular expressions in the source.  *)
(***************************************************************************)
\* \s
WhiteSpace == {" ", "\t", "\n", "\r"}

\* [\n\r]
LineBreaks == {"\n", "\r"}

\* [.!?] of the split's lookbehind
Terminators == {".", "!", "?"}

\* [.,!?;:] of the trailing strip
TrailingPunct == {".", ",", "!", "?", ";", ":"}

\* the characters escapeRegExp escapes: . * + ? ^ $ { } ( ) | [ ] \
MetaChars == {".", "*", "+", "?", "^", "$", "{", "}", "(", ")", "|", "[", "]", "\\"}

\* String.prototype.toLowerCase on one character
LowerChar(c) ==
  CASE c = "A" -> "a"
    [] c = "B" -> "b"
    [] c = "C" -> "c"
    [] c = "D" -> "d"
    [] c = "X" -> "x"
    [] OTHER -> c

ToLowerCase(s) == [i \in 1..Len(s) |-> LowerChar(s[i])]

(***************************************************************************)
(* Generic string helpers (String.prototype.trim, includes, join).         *)
(***************************************************************************)
RECURSIVE DropWhile(_, _)
DropWhile(s, S) ==
  IF s # <<>> /\ Head(s) \in S THEN DropWhile(Tail(s), S) ELSE s

RECURSIVE DropWhileEnd(_, _)
DropWhileEnd(s, S) ==
  IF s # <<>> /\ s[Len(s)] \in S THEN DropWhileEnd(SubSeq(s, 1, Len(s) - 1), S) ELSE s

Trim(s) == DropWhileEnd(DropWhile(s, WhiteSpace), WhiteSpace)

\* s.replace(/[S]+/g, " "): every maximal run of characters of S becomes one space
RECURSIVE ReplaceRuns(_, _)
ReplaceRuns(s, S) ==
  IF s = <<>> THEN <<>>
  ELSE IF Head(s) \in S THEN <<" ">> \o ReplaceRuns(DropWhile(Tail(s), S), S)
  ELSE <<Head(s)>> \o ReplaceRuns(Tail(s), S)

\* hay.includes(needle)
Includes(hay, needle) ==
  \E i \in 0..(Len(hay) - Len(needle)) : SubSeq(hay, i + 1, i + Len(needle)) = needle

\* parts.join(sep)
RECURSIVE Join(_, _)
Join(parts, sep) ==
  IF parts = <<>> THEN <<>>
  ELSE IF Len(parts) = 1 THEN parts[1]
  ELSE parts[1] \o sep \o Join(Tail(parts), sep)

(***************************************************************************)
(* normalizeForCompare, page.tsx:8-15, one definition per chained call.    *)
(***************************************************************************)
NormStripTrailing(s) == DropWhileEnd(s, TrailingPunct)

normalizeForCompare(s) ==
  ToLowerCase(NormStripTrailing(Trim(ReplaceRuns(ReplaceRuns(s, LineBreaks), WhiteSpace))))

(***************************************************************************)
(* BANNED_SENTENCE, page.tsx:6.  The passage of the source is eleven       *)
(* sentences on one line; the model keeps its shape in three: sentences    *)
(* separated by ". ", capitals at sentence starts, a sentence of several   *)
(* words, a final "." and no word sequence that overlaps itself.           *)
(***************************************************************************)
BANNED_SENTENCE == <<"A", " ", "b", ".", " ", "C", ".", " ", "d", ".">>

\* the words joined into the pattern as they are
escapeRegExpNone(s) == s

(***************************************************************************)
(* escapeRegExp, page.tsx:17-19: a backslash before every metacharacter.   *)
(***************************************************************************)
RECURSIVE escapeRegExp(_)
escapeRegExp(s) ==
  IF s = <<>> THEN <<>>
  ELSE IF Head(s) \in MetaChars THEN <<"\\", Head(s)>> \o escapeRegExp(Tail(s))
  ELSE <<Head(s)>> \o escapeRegExp(Tail(s))

(***************************************************************************)
(* s.split(/\s+/g).filter(Boolean), page.tsx:27.                           *)
(***************************************************************************)
RECURSIVE TakeUntil(_, _)
TakeUntil(s, S) ==
  IF s = <<>> \/ Head(s) \in S THEN <<>> ELSE <<Head(s)>> \o TakeUntil(Tail(s), S)

RECURSIVE SplitWords(_)
SplitWords(s) ==
  LET t == DropWhile(s, WhiteSpace)
      w == TakeUntil(t, WhiteSpace)
  IN IF t = <<>> THEN <<>>
     ELSE <<w>> \o SplitWords(SubSeq(t, Len(w) + 1, Len(t)))

(***************************************************************************)
(* new RegExp(pattern, "gi"), page.tsx:32.  The pattern source is parsed   *)
(* into atoms: "\s+" is a whitespace run, a backslash before any other     *)
(* character makes it a literal, a bare "." matches any character but a    *)
(* line terminator, every other character is a literal.                    *)
(***************************************************************************)
RECURSIVE RegExpCompile(_)
RegExpCompile(p) ==
  IF p = <<>> THEN <<>>
  ELSE IF Head(p) = "\\" /\ Len(p) >= 3 /\ p[2] = "s" /\ p[3] = "+"
    THEN <<[kind |-> "space+", ch |-> ""]>> \o RegExpCompile(SubSeq(p, 4, Len(p)))
  ELSE IF Head(p) = "\\" /\ Len(p) >= 2
    THEN <<[kind |-> "lit", ch |-> p[2]]>> \o RegExpCompile(SubSeq(p, 3, Len(p)))
  ELSE IF Head(p) = "."
    THEN <<[kind |-> "any", ch |-> ""]>> \o RegExpCompile(Tail(p))
  ELSE <<[kind |-> "lit", ch |-> Head(p)]>> \o RegExpCompile(Tail(p))

\* first index at or after i whose character is not in S
RECURSIVE SkipSet(_, _, _)
SkipSet(s, i, S) ==
  IF i <= Len(s) /\ s[i] \in S THEN SkipSet(s, i + 1, S) ELSE i

\* The index after a match of atoms that starts at i, 0 when there is none.
\* Flag i: literals compare case-insensitively.  The whitespace run is
\* greedy; the atom after it is never one that matches whitespace, so no
\* shorter run could match.
RECURSIVE MatchFrom(_, _, _)
MatchFrom(atoms, s, i) ==
  IF atoms = <<>> THEN i
  ELSE LET a == Head(atoms) IN
    IF a.kind = "space+"
      THEN IF i <= Len(s) /\ s[i] \in WhiteSpace
             THEN MatchFrom(Tail(atoms), s, SkipSet(s, i, WhiteSpace))
             ELSE 0
    ELSE IF i > Len(s) THEN 0
    ELSE IF a.kind = "any"
      THEN IF s[i] \notin LineBreaks THEN MatchFrom(Tail(atoms), s, i + 1) ELSE 0
    ELSE IF LowerChar(s[i]) = LowerChar(a.ch)
      THEN MatchFrom(Tail(atoms), s, i + 1)
    ELSE 0

\* input.replace(re, "") with flag g, page.tsx:33: scan left to right, drop
\* each match, resume after it.
RECURSIVE ReplaceFrom(_, _, _)
ReplaceFrom(atoms, s, i) ==
  IF i > Len(s) THEN <<>>
  ELSE LET e == MatchFrom(atoms, s, i) IN
    IF e = 0 THEN <<s[i]>> \o ReplaceFrom(atoms, s, i + 1)
    ELSE ReplaceFrom(atoms, s, e)

\* page.tsx:27
BannedWords == SplitWords(Trim(BANNED_SENTENCE))

\* page.tsx:29-31
BannedPattern ==
  Join([k \in 1..Len(BannedWords) |-> escapeRegExp(BannedWords[k])], <<"\\", "s", "+">>)

\* page.tsx:32
BannedRegExp == RegExpCompile(BannedPattern)

\* a catch that falls back to the empty text
TolerantRemovalClears(inp, fault) ==
  IF fault THEN <<>>
  ELSE IF Len(BannedWords) > 0 THEN ReplaceFrom(BannedRegExp, inp, 1)
  ELSE inp

(***************************************************************************)
(* The try block, page.tsx:26-37.  fault: the RegExp constructor or        *)
(* replace throws; the catch swallows it and input keeps its value.        *)
(***************************************************************************)
TolerantRemoval(inp, fault) ==
  IF fault THEN inp
  ELSE IF Len(BannedWords) > 0 THEN ReplaceFrom(BannedRegExp, inp, 1)
  ELSE inp

(***************************************************************************)
(* input.split(/(?<=[.!?])\s+|\n+/g), page.tsx:40.                         *)
(***************************************************************************)
\* index after a separator that starts at q, 0 when none starts there
SeparatorEnd(s, q) ==
  IF q > 1 /\ s[q - 1] \in Terminators /\ s[q] \in WhiteSpace
    THEN SkipSet(s, q, WhiteSpace)
  ELSE IF s[q] = "\n" THEN SkipSet(s, q, {"\n"})
  ELSE 0

RECURSIVE SplitFrom(_, _, _)
SplitFrom(s, p, q) ==
  IF q > Len(s) THEN <<SubSeq(s, p, Len(s))>>
  ELSE LET e == SeparatorEnd(s, q) IN
    IF e = 0 THEN SplitFrom(s, p, q + 1)
    ELSE <<SubSeq(s, p, q - 1)>> \o SplitFrom(s, e, e)

SplitSentences(s) == SplitFrom(s, 1, 1)

\* page.tsx:44
bannedNorm == normalizeForCompare(BANNED_SENTENCE)

\* the condition without its second disjunct: only a segment that contains
\* the passage is banned
IsBannedOneWay(trimmed) ==
  Includes(normalizeForCompare(trimmed), bannedNorm)

\* the condition of page.tsx:55
IsBanned(trimmed) ==
  LET partNorm == normalizeForCompare(trimmed)
  IN Includes(partNorm, bannedNorm) \/ Includes(bannedNorm, partNorm)

\* the loop pushing part instead of trimmed
RECURSIVE AllowedUntrimmed(_)
AllowedUntrimmed(rawParts) ==
  IF rawParts = <<>> THEN <<>>
  ELSE LET trimmed == Trim(Head(rawParts)) IN
    IF trimmed = <<>> THEN AllowedUntrimmed(Tail(rawParts))
    ELSE IF Includes(normalizeForCompare(trimmed), bannedNorm)
            \/ Includes(bannedNorm, normalizeForCompare(trimmed))
      THEN AllowedUntrimmed(Tail(rawParts))
    ELSE <<Head(rawParts)>> \o AllowedUntrimmed(Tail(rawParts))

\* the loop of page.tsx:46-60
RECURSIVE Allowed(_)
Allowed(rawParts) ==
  IF rawParts = <<>> THEN <<>>
  ELSE LET trimmed == Trim(Head(rawParts)) IN
    IF trimmed = <<>> THEN Allowed(Tail(rawParts))
    ELSE IF IsBanned(trimmed) THEN Allowed(Tail(rawParts))
    ELSE <<trimmed>> \o Allowed(Tail(rawParts))

\* page.tsx:64, evaluated on input as reassigned at page.tsx:33
HasNewlines(s) == \E i \in 1..Len(s) : s[i] = "\n"

\* page.tsx:62-65
Rejoin(allowed, hasNewlines) ==
  Join(allowed, IF hasNewlines THEN <<"\n", "\n">> ELSE <<" ">>)

(***************************************************************************)
(* filterOutBannedSentences, page.tsx:21-66.                               *)
(***************************************************************************)
\* no guard on the empty text
EarlyReturnNever(inp) == FALSE

\* page.tsx:22, if (!input) return ""
EarlyReturn(inp) == inp = <<>>

\* page.tsx:40-65, the statements after the try block
SentenceFilter(inp1) == Rejoin(Allowed(SplitSentences(inp1)), HasNewlines(inp1))

filterOutBannedSentences(inp, fault) ==
  IF EarlyReturn(inp) THEN <<>>
  ELSE SentenceFilter(TolerantRemoval(inp, fault))

(***************************************************************************)
(* The texts the filter is called on: up to MaxPieces fragments, each a    *)
(* single character, the passage (verbatim, or in other letter case with   *)
(* its whitespace reflowed) or filler that carries part of the passage.    *)
(***************************************************************************)
MaxPieces == 4

Verbatim == BANNED_SENTENCE
Reflowed == <<"a", "\n", "B", ".", " ", "\t", "c", ".", "\r", "D", ".">>
HeadFiller == <<"x", " ", "A", " ", "b", ".", " ">>
TailFiller == <<"C", ".", " ", "d">>

Pieces == {<<"x">>, <<" ">>, <<"\n">>, <<".">>, Verbatim, Reflowed, HeadFiller, TailFiller}

None == <<"-">>

FilterInit ==
  /\ input = <<>>
  /\ typed = 0
  /\ pc = "edit"
  /\ threw = FALSE
  /\ erased = None
  /\ output = None
  /\ again = None
  /\ key = None
  /\ rekey = None

\* no setState call queued
NoUpdate(st) == IF st \in {"source", "filtered"} THEN None ELSE "-"

NoUpdates == [st \in {"source", "filtered", "msg", "pasteStatus"} |-> NoUpdate(st)]

\* page.tsx:69-80 and the first render: the effects of the mount are due
HomeInit ==
  /\ source = <<>>
  /\ filtered = <<>>
  /\ msg = "null"
  /\ pasteStatus = "idle"
  /\ updates = NoUpdates
  /\ effect = TRUE
  /\ reads = 0

Init == FilterInit /\ HomeInit

\* one more fragment of the argument text
Type ==
  /\ pc = "edit"
  /\ typed < MaxPieces
  /\ \E p \in Pieces : input' = input \o p
  /\ typed' = typed + 1
  /\ UNCHANGED <<pc, threw, erased, output, again, key, rekey>>
  /\ UNCHANGED uvars

\* filterOutBannedSentences(input)
Call ==
  /\ pc = "edit"
  /\ \E fault \in BOOLEAN :
       /\ threw' = (fault /\ ~EarlyReturn(input))
       /\ erased' = IF EarlyReturn(input) THEN None ELSE TolerantRemoval(input, fault)
       /\ output' = filterOutBannedSentences(input, fault)
  /\ pc' = "called"
  /\ UNCHANGED <<input, typed, again, key, rekey>>
  /\ UNCHANGED uvars

\* filterOutBannedSentences(output)
CallAgain ==
  /\ pc = "called"
  /\ again' = filterOutBannedSentences(output, FALSE)
  /\ pc' = "again"
  /\ UNCHANGED <<input, typed, threw, erased, output, key, rekey>>
  /\ UNCHANGED uvars

\* normalizeForCompare(input), then normalizeForCompare of the key
Normalize ==
  /\ pc = "edit"
  /\ key' = normalizeForCompare(input)
  /\ rekey' = normalizeForCompare(normalizeForCompare(input))
  /\ pc' = "normalized"
  /\ UNCHANGED <<input, typed, threw, erased, output, again>>
  /\ UNCHANGED uvars

Next == Type \/ Call \/ CallAgain \/ Normalize

Spec == Init /\ [][Next]_vars

(***************************************************************************)
(* Vocabulary of the properties.                                           *)
(***************************************************************************)
\* t[i..j] is an occurrence of the passage: it starts and ends on a word
\* and reads, up to letter case and whitespace runs, as the passage's words
IsOccurrence(t, i, j) ==
  /\ 1 <= i /\ i <= j /\ j <= Len(t)
  /\ t[i] \notin WhiteSpace
  /\ t[j] \notin WhiteSpace
  /\ SplitWords(ToLowerCase(SubSeq(t, i, j))) = SplitWords(ToLowerCase(BANNED_SENTENCE))

ContainsPassage(t) == \E i \in 1..Len(t) : \E j \in i..Len(t) : IsOccurrence(t, i, j)

\* C1: a second pass of the filter over its own output returns that output
\* unchanged (calls in which the matcher works).
Idempotence == (pc = "again" /\ ~threw) => again = output

\* a first pass that erased an occurrence and kept text, then a second pass
IdempotenceWitness ==
  /\ pc = "again" /\ ~threw
  /\ erased # input /\ output # <<>> /\ Len(output) < Len(erased)

\* C2: when the text holds the passage (verbatim, in other case, reflowed)
\* between arbitrary filler, the normalized output does not contain the
\* normalized passage.
PassageElimination ==
  (pc = "called" /\ ContainsPassage(input))
     => ~Includes(normalizeForCompare(output), bannedNorm)

\* the erasure joined the filler around the passage into a new occurrence
PassageEliminationWitness ==
  /\ pc = "called" /\ ~threw
  /\ ContainsPassage(input)
  /\ Includes(normalizeForCompare(erased), bannedNorm)
  /\ output # <<>>

\* C3: the retained segments are joined with two line breaks exactly when
\* the text passed to the filter held a newline, whatever the erasure left.
RejoinByOriginalText ==
  (pc = "called" /\ input # <<>>)
     => output = Rejoin(Allowed(SplitSentences(erased)), HasNewlines(input))

\* the non-empty trimmed segments of a text, in order
RECURSIVE TrimmedParts(_)
TrimmedParts(parts) ==
  IF parts = <<>> THEN <<>>
  ELSE LET h == Trim(Head(parts)) IN
    IF h = <<>> THEN TrimmedParts(Tail(parts)) ELSE <<h>> \o TrimmedParts(Tail(parts))

Segments(t) == TrimmedParts(SplitSentences(t))

\* the segment's key and the passage's key are in a substring relationship
InRelation(seg) ==
  LET k == normalizeForCompare(seg)
  IN Includes(k, bannedNorm) \/ Includes(bannedNorm, k)

Unrelated(t) ==
  /\ ~ContainsPassage(t)
  /\ \A k \in 1..Len(Segments(t)) : ~InRelation(Segments(t)[k])

\* C4: a text without the passage and without a segment related to it comes
\* back as its own non-empty trimmed segments, verbatim and in order, joined
\* by one of the two separators.
NonBannedPreservation ==
  (pc = "called" /\ Unrelated(input))
     => \E sep \in {<<" ">>, <<"\n", "\n">>} : output = Join(Segments(input), sep)

\* several segments kept, the separators between them rewritten
NonBannedPreservationWitness ==
  /\ pc = "called" /\ Unrelated(input)
  /\ Len(Segments(input)) >= 2
  /\ output # input

\* the text left when the occurrences are deleted, leftmost first, scanning
\* from index i
RECURSIVE EraseOccurrences(_, _)
EraseOccurrences(t, i) ==
  IF i > Len(t) THEN <<>>
  ELSE IF \E j \in i..Len(t) : IsOccurrence(t, i, j)
    THEN EraseOccurrences(t, (CHOOSE j \in i..Len(t) : IsOccurrence(t, i, j)) + 1)
  ELSE <<t[i]>> \o EraseOccurrences(t, i + 1)

\* C5: stage 1 deletes every occurrence of the passage's word sequence, in
\* any letter case and with any whitespace runs between the words, and
\* leaves every other character in place.
TolerantErasure ==
  (pc = "called" /\ ~threw /\ input # <<>>) => erased = EraseOccurrences(input, 1)

\* two occurrences deleted, text around them left
TolerantErasureWitness ==
  /\ pc = "called" /\ ~threw
  /\ erased # <<>>
  /\ Len(input) - Len(erased) >= 2 * Len(BANNED_SENTENCE)

\* the text is the passage alone, in any case, with any whitespace between
\* its words and around it
OnlyPassage(t) == SplitWords(ToLowerCase(t)) = SplitWords(ToLowerCase(BANNED_SENTENCE))

\* C6: the empty text returns the empty text before the pipeline starts, and
\* a text that is only the passage returns the empty text.
EmptyResults ==
  /\ (pc = "called" /\ input = <<>>) => (output = <<>> /\ erased = None)
  /\ (pc = "called" /\ OnlyPassage(input)) => output = <<>>

\* the passage reflowed over lines, with whitespace before and after it
EmptyResultsWitness ==
  /\ pc = "called" /\ ~threw
  /\ OnlyPassage(input)
  /\ input[1] \in WhiteSpace /\ input[Len(input)] \in WhiteSpace
  /\ HasNewlines(input)

\* C7: when the matcher throws, the sentence-level filter runs on the text
\* as it was passed in and the call returns its result.
BestEffortErasure ==
  (pc = "called" /\ threw)
     => (erased = input /\ output = SentenceFilter(input) /\ output # None)

\* the matcher threw on a text that holds the passage and text was returned
BestEffortErasureWitness ==
  /\ pc = "called" /\ threw
  /\ ContainsPassage(input)
  /\ output # <<>>

\* the segments the discard rule keeps: a segment goes only when its key is
\* a non-empty substring of the passage's key or contains the passage's key
RECURSIVE KeptByRule(_)
KeptByRule(parts) ==
  IF parts = <<>> THEN <<>>
  ELSE LET h == Trim(Head(parts))
           k == normalizeForCompare(h)
       IN IF h = <<>> THEN KeptByRule(Tail(parts))
          ELSE IF (k # <<>> /\ Includes(bannedNorm, k)) \/ Includes(k, bannedNorm)
            THEN KeptByRule(Tail(parts))
          ELSE <<h>> \o KeptByRule(Tail(parts))

\* C8: a segment is discarded only under the discard rule; a segment of
\* punctuation alone, whose key is empty, stays in the output.
DiscardRule ==
  (pc = "called" /\ input # <<>>)
     => output = Rejoin(KeptByRule(SplitSentences(erased)), HasNewlines(erased))

\* C10: normalizing a key gives the key back, a key neither starts nor ends
\* with whitespace nor ends with one of . , ! ? ; : and a text of whitespace
\* alone has the empty key.
CanonicalKey ==
  pc = "normalized" =>
     /\ rekey = key
     /\ key # <<>> => /\ key[1] \notin WhiteSpace
                      /\ key[Len(key)] \notin (WhiteSpace \cup TrailingPunct)
     /\ Trim(input) = <<>> => key = <<>>

(***************************************************************************)
(* The Home component, page.tsx:68-269.  A setState call is queued and the *)
(* next render applies the queue; calls on one state are plain values, so  *)
(* the last one queued is the one applied.  A handler reads source and     *)
(* filtered as the last render bound them.  React runs the effects of a    *)
(* render before it renders again.  The filter is called with a working    *)
(* matcher.                                                                *)
(***************************************************************************)
MaxReads == 2

\* what the user types or the clipboard holds
Texts ==
  { <<"x">>,
    <<"x", ".", " ">> \o Reflowed \o <<" ", "x">>,
    HeadFiller \o <<"x">> }

SetState(q, st, val) == [q EXCEPT ![st] = val]

\* an empty dependency array: the effect runs on mount only
EffectDueNever(prev, cur) == FALSE

\* the dependency array [source] of page.tsx:85: the effect is due when the
\* value changed from the previous render
EffectDue(prev, cur) == prev # cur

\* textarea onChange, page.tsx (JSX): setSource(e.target.value)
OnChange ==
  /\ \E v \in Texts \cup {<<>>} : updates' = SetState(updates, "source", v)
  /\ UNCHANGED <<source, filtered, msg, pasteStatus, effect, reads>>
  /\ UNCHANGED fvars

\* "Insert banned sentence": setSource(example)
InsertBanned ==
  /\ updates' = SetState(updates, "source", BANNED_SENTENCE)
  /\ UNCHANGED <<source, filtered, msg, pasteStatus, effect, reads>>
  /\ UNCHANGED fvars

\* "Refresh": setFiltered(filterOutBannedSentences(source))
Refresh ==
  /\ updates' = SetState(updates, "filtered", filterOutBannedSentences(source, FALSE))
  /\ UNCHANGED <<source, filtered, msg, pasteStatus, effect, reads>>
  /\ UNCHANGED fvars

\* onPasteFromClipboard up to the await, page.tsx:105-116
PasteStart ==
  /\ reads < MaxReads
  /\ updates' = SetState(updates, "msg", "null")
  /\ reads' = reads + 1
  /\ UNCHANGED <<source, filtered, msg, pasteStatus, effect>>
  /\ UNCHANGED fvars

\* onPasteFromClipboard without a clipboard API, page.tsx:106-115
PasteUnavailable ==
  /\ updates' = SetState(SetState(updates, "pasteStatus", "error"), "msg", "unavailable")
  /\ UNCHANGED <<source, filtered, msg, pasteStatus, effect, reads>>
  /\ UNCHANGED fvars

\* readText() resolved, page.tsx:116-121
PasteResolved ==
  /\ reads > 0
  /\ reads' = reads - 1
  /\ \E text \in Texts :
       updates' = SetState(SetState(SetState(updates, "source", text),
                                    "pasteStatus", "success"), "msg", "pasted")
  /\ UNCHANGED <<source, filtered, msg, pasteStatus, effect>>
  /\ UNCHANGED fvars

\* readText() rejected, page.tsx:122-128
PasteRejected ==
  /\ reads > 0
  /\ reads' = reads - 1
  /\ updates' = SetState(SetState(updates, "pasteStatus", "error"), "msg", "failed")
  /\ UNCHANGED <<source, filtered, msg, pasteStatus, effect>>
  /\ UNCHANGED fvars

\* the timeout of page.tsx:87-91: setMsg(null)
MsgTimeout ==
  /\ msg # "null"
  /\ updates' = SetState(updates, "msg", "null")
  /\ UNCHANGED <<source, filtered, msg, pasteStatus, effect, reads>>
  /\ UNCHANGED fvars

\* the timeout of page.tsx:99-103: setPasteStatus("idle")
PasteStatusTimeout ==
  /\ pasteStatus # "idle"
  /\ updates' = SetState(updates, "pasteStatus", "idle")
  /\ UNCHANGED <<source, filtered, msg, pasteStatus, effect, reads>>
  /\ UNCHANGED fvars

Applied(st, cur) == IF updates[st] = NoUpdate(st) THEN cur ELSE updates[st]

\* a render: the queued calls become the state; the effect is due again
\* when its dependency changed
Render ==
  /\ ~effect
  /\ updates # NoUpdates
  /\ source' = Applied("source", source)
  /\ filtered' = Applied("filtered", filtered)
  /\ msg' = Applied("msg", msg)
  /\ pasteStatus' = Applied("pasteStatus", pasteStatus)
  /\ updates' = NoUpdates
  /\ effect' = EffectDue(source, Applied("source", source))
  /\ UNCHANGED reads
  /\ UNCHANGED fvars

\* the effect of page.tsx:83-85: setFiltered(filterOutBannedSentences(source))
FilterEffect ==
  /\ effect
  /\ updates' = SetState(updates, "filtered", filterOutBannedSentences(source, FALSE))
  /\ effect' = FALSE
  /\ UNCHANGED <<source, filtered, msg, pasteStatus, reads>>
  /\ UNCHANGED fvars

NextHome ==
  \/ OnChange \/ InsertBanned \/ Refresh
  \/ PasteStart \/ PasteUnavailable \/ PasteResolved \/ PasteRejected
  \/ MsgTimeout \/ PasteStatusTimeout
  \/ Render \/ FilterEffect

SpecHome == Init /\ [][NextHome]_vars

\* the effect for the latest source ran and its result is rendered
Settled ==
  /\ ~effect
  /\ updates["source"] = None
  /\ updates["filtered"] = None

\* a clipboard read failed in this step: a pending readText() rejected, or
\* the handler found no clipboard API
FailedRead ==
  \/ reads' = reads - 1 /\ updates'["msg"] = "failed"
  \/ updates'["msg"] = "unavailable" /\ updates["msg"] # "unavailable"

\* C9: once the effect for the latest source has run and is rendered, the
\* displayed filtered text is the filter of that source, whatever was typed,
\* pasted, inserted or refreshed before; a failed clipboard read changes
\* neither source nor filtered.
OutputFollowsInput ==
  /\ [](Settled => filtered = filterOutBannedSentences(source, FALSE))
  /\ [][FailedRead => /\ source' = source
                      /\ filtered' = filtered
                      /\ updates'["source"] = updates["source"]
                      /\ updates'["filtered"] = updates["filtered"]]_vars

\* a completed paste is displayed, filtered to something shorter
OutputFollowsInputWitness ==
  /\ Settled
  /\ msg = "pasted"
  /\ filtered # <<>>
  /\ filtered # source

====
